---- MODULE Spec2Model ----
(***************************************************************************)
(* Model of garmin.py: the FIT record rewriting of edit_fit, the ledger    *)
(* (.uploaded_files.json) and the directory scan of upload_all, and the    *)
(* upload to Garmin Connect.                                               *)
(*                                                                         *)
(* File names and paths are sequences of one-character strings, so that    *)
(* str.replace, str.strip and str.endswith of upload_all are computed as   *)
(* Python computes them.                                                   *)
(***************************************************************************)
EXTENDS Integers, Sequences, FiniteSets, TLC

(***************************************************************************)
(* Bounds of the model.                                                    *)
(***************************************************************************)
\* longest record sequence edit_fit is applied to under EditSpec
MaxRecords == 2
\* longest ledger found on disk before the first scan
MaxInitLedger == 1

(***************************************************************************)
(* Profile values of fit_tool used by the code.                            *)
(***************************************************************************)
DEVELOPMENT == 255
WAHOO_FITNESS == 32
GARMIN == 1
EDGE830 == 3122
\* an absent field (Python None)
NoVal == -1

\* global ids of the messages the code tells apart (FileIdMessage.ID,
\* DeviceInfoMessage.ID, WorkoutMessage.ID) and of one it passes through
FILE_ID == 0
DEVICE_INFO == 23
WORKOUT == 26
RECORD == 20

(***************************************************************************)
(* Strings.                                                                *)
(***************************************************************************)
UpperCase == <<"A","B","C","D","E","F","G","H","I","J","K","L","M",
               "N","O","P","Q","R","S","T","U","V","W","X","Y","Z">>
LowerCase == <<"a","b","c","d","e","f","g","h","i","j","k","l","m",
               "n","o","p","q","r","s","t","u","v","w","x","y","z">>

LowerChar(c) ==
    IF \E i \in 1..26 : UpperCase[i] = c
    THEN LowerCase[CHOOSE i \in 1..26 : UpperCase[i] = c]
    ELSE c

Lower(s) == [i \in 1..Len(s) |-> LowerChar(s[i])]

\* s.startswith(p)
StartsWith(s, p) == Len(p) <= Len(s) /\ SubSeq(s, 1, Len(p)) = p

\* s.endswith(p)
EndsWith(s, p) ==
    Len(p) <= Len(s) /\ SubSeq(s, Len(s) - Len(p) + 1, Len(s)) = p

Drop(s, n) == SubSeq(s, n + 1, Len(s))

\* s.replace(old, ''): every non-overlapping occurrence, left to right
RECURSIVE RemoveAll(_, _)
RemoveAll(s, old) ==
    IF s = <<>> THEN <<>>
    ELSE IF StartsWith(s, old) THEN RemoveAll(Drop(s, Len(old)), old)
    ELSE <<Head(s)>> \o RemoveAll(Tail(s), old)

RECURSIVE LStrip(_, _)
LStrip(s, c) ==
    IF s # <<>> /\ Head(s) = c THEN LStrip(Tail(s), c) ELSE s

RECURSIVE RStrip(_, _)
RStrip(s, c) ==
    IF s # <<>> /\ s[Len(s)] = c THEN RStrip(SubSeq(s, 1, Len(s) - 1), c) ELSE s

\* s.strip(c) for a one-character c
Strip(s, c) == RStrip(LStrip(s, c), c)

DOT_FIT == <<".","f","i","t">>
MODIFIED_FIT == <<"_","m","o","d","i","f","i","e","d">> \o DOT_FIT

(***************************************************************************)
(* The files and directories the model draws from.                         *)
(***************************************************************************)
ride1_fit == <<"r","i","d","e","1">> \o DOT_FIT
ride1_modified_fit == <<"r","i","d","e","1">> \o MODIFIED_FIT
RIDE2_FIT == <<"R","I","D","E","2",".","F","I","T">>
notes_txt == <<"n","o","t","e","s",".","t","x","t">>

FileNames == {ride1_fit, RIDE2_FIT, ride1_modified_fit, notes_txt}

\* the directory given to upload_all: a plain path, the current directory,
\* and a path whose text occurs inside a file name
tpv_dir == <<"t","p","v">>
dot_dir == <<".">>
modified_dir == <<"_","m","o","d","i","f","i","e","d">>

DirPaths == {tpv_dir, dot_dir, modified_dir}

\* the directory on_created gives to upload_all: an absolute path
watch_dir == <<"/","t","p","v">>

(***************************************************************************)
(* FIT messages.  typed is isinstance(message, <the class of global_id>):  *)
(* the decoder also yields definition records, whose message carries the   *)
(* global id of the message it defines without being an instance of it.    *)
(***************************************************************************)
Message(g, t, man, prod, gprod, tc) ==
    [global_id |-> g, typed |-> t, manufacturer |-> man, product |-> prod,
     garmin_product |-> gprod, time_created |-> tc,
     workout_name |-> "", sport |-> ""]

\* WorkoutMessage() with workout_name and sport set
WorkoutMessage(name) ==
    [global_id |-> WORKOUT, typed |-> TRUE, manufacturer |-> NoVal,
     product |-> NoVal, garmin_product |-> NoVal, time_created |-> NoVal,
     workout_name |-> name, sport |-> "CYCLING"]

\* the manufacturers records are drawn from (89 is one the code does not name)
Manufacturers == {0, GARMIN, WAHOO_FITNESS, DEVELOPMENT, 89}

\* the workout names the naming service may answer; "" is no match
WorkoutNames == {"", "Tempo"}

(***************************************************************************)
(* edit_fit: the loop body for one message.                                *)
(***************************************************************************)
\* a slip in the file-id branch: the device-info condition copied into it
EditFileId_anyUnknown(m) ==
    IF /\ m.global_id = FILE_ID
       /\ m.typed
       /\ (m.manufacturer = DEVELOPMENT \/ m.manufacturer = 0)
    THEN [m EXCEPT !.product = EDGE830, !.manufacturer = GARMIN]
    ELSE m

EditFileId(m) ==
    IF m.global_id = FILE_ID /\ m.typed /\ m.manufacturer = DEVELOPMENT
    THEN [m EXCEPT !.product = EDGE830, !.manufacturer = GARMIN]
    ELSE m

\* a slip in the device-info branch: the third-party brand left out
EditDeviceInfo_noWahoo(m) ==
    IF /\ m.global_id = DEVICE_INFO
       /\ m.typed
       /\ (m.manufacturer = DEVELOPMENT \/ m.manufacturer = 0)
    THEN [m EXCEPT !.garmin_product = EDGE830, !.product = EDGE830,
                   !.manufacturer = GARMIN]
    ELSE m

EditDeviceInfo(m) ==
    IF /\ m.global_id = DEVICE_INFO
       /\ m.typed
       /\ \/ m.manufacturer = DEVELOPMENT
          \/ m.manufacturer = 0
          \/ m.manufacturer = WAHOO_FITNESS
    THEN [m EXCEPT !.garmin_product = EDGE830, !.product = EDGE830,
                   !.manufacturer = GARMIN]
    ELSE m

EditMessage(m) == EditDeviceInfo(EditFileId(m))

\* a slip after the loop: the workout message added whatever the name is
BuilderMessages_alwaysWorkout(records, name) ==
    [i \in 1..Len(records) |-> EditMessage(records[i])]
        \o <<WorkoutMessage(name)>>

\* the messages edit_fit adds to the builder, in the order it adds them
BuilderMessages(records, name) ==
    [i \in 1..Len(records) |-> EditMessage(records[i])]
        \o (IF name # "" THEN <<WorkoutMessage(name)>> ELSE <<>>)

\* get_date_from_fit on decoded records: time_created of the first
\* FileIdMessage, NoVal when there is none
get_date_from_fit(records) ==
    IF \E i \in 1..Len(records) :
           records[i].global_id = FILE_ID /\ records[i].typed
    THEN LET i == CHOOSE j \in 1..Len(records) :
                      /\ records[j].global_id = FILE_ID /\ records[j].typed
                      /\ \A k \in 1..(j - 1) :
                             ~(records[k].global_id = FILE_ID /\ records[k].typed)
         IN records[i].time_created
    ELSE NoVal

(***************************************************************************)
(* The watched directory: which files it holds and what they decode to.    *)
(***************************************************************************)
ride1_records ==
    << Message(FILE_ID, FALSE, NoVal, NoVal, NoVal, NoVal),
       Message(FILE_ID, TRUE, DEVELOPMENT, 7, NoVal, 1000),
       Message(DEVICE_INFO, TRUE, 0, 7, 7, NoVal),
       Message(RECORD, TRUE, NoVal, NoVal, NoVal, NoVal) >>

\* a file with no FileIdMessage: get_date_from_fit returns None
ride2_records ==
    << Message(DEVICE_INFO, TRUE, WAHOO_FITNESS, 7, NoVal, NoVal),
       Message(DEVICE_INFO, TRUE, 89, 7, NoVal, NoVal) >>

Records(name) ==
    CASE name = ride1_fit -> ride1_records
      [] name = RIDE2_FIT -> ride2_records
      [] name = ride1_modified_fit -> BuilderMessages(ride1_records, "")
      [] OTHER -> <<>>

\* no file name: the value of bad when every FIT file of the directory decodes
NoName == <<>>

\* where NamedTemporaryFile puts the output of edit_fit in upload_all
TmpPath == <<"/","t","m","p","/","x">>

\* the value of ledgerFile when .uploaded_files.json does not exist
NoFile == <<"<missing>">>

VARIABLES
    dir,            \* the path given to upload_all
    fs,             \* the names of the files directly inside dir
    bad,            \* the file of fs that FitFile.from_file cannot decode, or NoName
    creds,          \* INTERVALS_ATHLETEID and INTERVALS_APIKEY are both set
    ledgerFile,     \* content of dir/.uploaded_files.json, or NoFile
    pc,             \* "idle", or "loop" inside the for loop of upload_all
    preinitialise,  \* parameters of the running (or last) upload_all
    dryrun,
    uploaded_files, \* the list upload_all holds in memory
    files,          \* its candidate list
    idx,            \* position of the for loop in files
    status,         \* how the last upload_all ended: "none", "running", "returned", "raised"
    calls,          \* the remote calls of this run, in order
    writes,         \* the activity files written by this run, in order
    outcomes,       \* per candidate of this run: "preinitialise", "dryrun", the answer
                    \* of the upload ("ok", "conflict", "error"), or what raised
                    \* before it ("decode_error", "not_found", "lookup_error",
                    \* "login_error")
    ledgerBefore,   \* ledgerFile when this run began
    lastScan,       \* "complete" once a non-dry-run scan ran to its end
    basis,          \* lastScan when this run began
    names,          \* per candidate of this run: what get_name_from_intervals
                    \* returned ("" also when it was not called or raised)
    steps,          \* the steps of this run as <<step, position in files>>
    ledgerOps,      \* the accesses of this run to .uploaded_files.json as
                    \* <<"read" or "write", candidates passed so far>>
    okBefore,       \* the names whose upload was answered ok in the run before
                    \* this one, when that run raised
    eIn, eName, eDry, eOut, eRet,  \* edit_fit applied to drawn inputs (EditSpec)
    ePath,          \* the name of the file given to it as fit_path
    eFiles,         \* the files of that directory and the temporary file: path -> records
    eDate,          \* <<what get_date_from_fit returned for fit_path>>, <<>> before
    dpc,            \* daemonise: "off", "waiting" in its sleep loop, "stopping"
                    \* in its finally clause, "returned"
    observer,       \* the observer thread: "none", "running", "stopped" by
                    \* observer.stop(), or "dead" of an exception in a handler
    queue,          \* the creation events the observer has not yet dispatched
    hpc,            \* on_created: "none", "sleep" before upload_all, "batch" inside it
    handled,        \* the calls of on_created begun so far
    finished,       \* the calls of on_created ended so far
    recorded,       \* the names the ledger file has held since daemonise began
    submitted       \* <<number of the batch, name>> for the uploads the batches
                    \* that have ended submitted

scanVars == <<dir, fs, bad, creds, ledgerFile, pc, preinitialise, dryrun,
              uploaded_files, files, idx, status, calls, writes, outcomes,
              ledgerBefore, lastScan, basis, names, steps, ledgerOps,
              okBefore>>
editVars == <<eIn, eName, eDry, eOut, eRet, ePath, eFiles, eDate>>
daemonVars == <<dpc, observer, queue, hpc, handled, finished, recorded, submitted>>
vars == <<scanVars, editVars, daemonVars>>

\* FitFile.from_file(dir / f) returns records (otherwise it raises)
Decodable(f) == f \in fs /\ f # bad /\ f # notes_txt

\* str(i) for a path i that dir.glob yields
PathStr(d, name) == IF d = dot_dir THEN name ELSE d \o <<"/">> \o name

\* dir.glob('*.fit', case_sensitive=False) matches this name
GlobMatch(name) == EndsWith(Lower(name), DOT_FIT)

\* i.replace(str(dir), '').strip('/').strip('\\')
StripName(d, path) == Strip(Strip(RemoveAll(path, d), "/"), "\\")

\* every order in which the file system may list the names of S
Listings(S) ==
    { l \in [1..Cardinality(S) -> S] :
        \A i, j \in 1..Cardinality(S) : i # j => l[i] # l[j] }

InSeq(x, s) == \E i \in 1..Len(s) : s[i] = x

\* a slip: the filter on the reserved suffix left out
NotModified_unfiltered(f) == TRUE

NotModified(f) == ~EndsWith(f, MODIFIED_FIT)

\* the names of the model that the glob matches, and what the first two
\* list comprehensions of upload_all make of each (computed once)
GlobNames == {f \in FileNames : GlobMatch(f)}

Stripped == [d \in DirPaths \cup {watch_dir} |-> [f \in GlobNames |-> StripName(d, PathStr(d, f))]]

\* a slip: the filter on the ledger left out
Candidates_noLedgerFilter(d, listing, ledger) ==
    LET stripped == [i \in 1..Len(listing) |-> Stripped[d][listing[i]]]
    IN SelectSeq(stripped, NotModified)

\* the candidate list of upload_all for a directory listing and a ledger
Candidates(d, listing, ledger) ==
    LET stripped == [i \in 1..Len(listing) |-> Stripped[d][listing[i]]]
        unmodified == SelectSeq(stripped, NotModified)
    IN SelectSeq(unmodified, LAMBDA f : ~InSeq(f, ledger))

(***************************************************************************)
(* get_name_from_intervals.  An activity the naming service lists is       *)
(* [client, delta, name]: its oauth_client_name, the seconds from dt to    *)
(* its start_date, and its name.                                           *)
(***************************************************************************)
Activity(c, d, n) == [client |-> c, delta |-> d, name |-> n]

Abs(x) == IF x < 0 THEN -x ELSE x

\* what svc.activities_list may answer
IntervalsAnswers ==
    { <<>>,
      << Activity("Training Peaks Virtual", -15, "Tempo") >>,
      << Activity("Training Peaks Virtual", 16, "Tempo") >>,
      << Activity("Strava", 0, "Run"),
         Activity("Training Peaks Virtual", 15, "Tempo") >> }

\* the for loop of get_name_from_intervals: the name of the first listed
\* activity of Training Peaks Virtual within 15 seconds of dt, or ""
MatchingName(listed) ==
    LET hits == { i \in 1..Len(listed) :
                    /\ listed[i].client = "Training Peaks Virtual"
                    /\ Abs(listed[i].delta) <= 15 }
    IN IF hits = {} THEN ""
       ELSE listed[CHOOSE i \in hits : \A j \in hits : i <= j].name

\* get_name_from_intervals(dt) for a dt that is not None; with dt None and
\* the credentials set, dt.strftime raises (see upload_all_file)
get_name_from_intervals(listed) ==
    IF ~creds THEN "" ELSE MatchingName(listed)

(***************************************************************************)
(* upload_all, from its call to the start of the for loop: load or create  *)
(* the ledger, glob the directory, filter the candidates; return when      *)
(* there are none.                                                         *)
(***************************************************************************)
LoadLedger(file) == IF file = NoFile THEN <<>> ELSE file

upload_all_start(pre, dry, listing) ==
    LET loaded == LoadLedger(ledgerFile)
        cands == Candidates(dir, listing, loaded)
    IN /\ pc = "idle"
       /\ preinitialise' = pre
       /\ dryrun' = dry
       /\ ledgerBefore' = ledgerFile
       /\ basis' = lastScan
       /\ ledgerFile' = loaded
       /\ uploaded_files' = loaded
       /\ files' = cands
       /\ idx' = 1
       /\ calls' = <<>>
       /\ writes' = <<>>
       /\ outcomes' = <<>>
       /\ names' = <<>>
       /\ steps' = <<>>
       /\ okBefore' = IF status = "raised"
                      THEN {files[i] : i \in {j \in 1..Len(outcomes) : outcomes[j] = "ok"}}
                      ELSE {}
       /\ ledgerOps' = IF ledgerFile = NoFile THEN << <<"write", 0>> >>
                                              ELSE << <<"read", 0>> >>
       /\ IF cands = <<>>
          THEN /\ pc' = "idle"
               /\ status' = "returned"
               /\ lastScan' = IF dry THEN lastScan ELSE "complete"
          ELSE /\ pc' = "loop"
               /\ status' = "running"
               /\ lastScan' = lastScan
       /\ UNCHANGED <<dir, fs, bad, creds, editVars>>

(***************************************************************************)
(* The remote calls of find_and_set_garmin_activity_name, for the set of   *)
(* distances (seconds) of the remote cycling activities from dt.           *)
(***************************************************************************)
Deltas == {-10, 9, 10}

\* a slip: the distance compared without abs()
RECURSIVE RenameCalls_signed(_, _)
RenameCalls_signed(acts, f) ==
    IF acts = {} THEN <<>>
    ELSE LET a == CHOOSE x \in acts : \A y \in acts : x <= y
         IN (IF a < 10
             THEN << <<"garmin.login", f>>, <<"set_activity_name", f, a>> >>
             ELSE <<>>) \o RenameCalls_signed(acts \ {a}, f)

RECURSIVE RenameCalls(_, _)
RenameCalls(acts, f) ==
    IF acts = {} THEN <<>>
    ELSE LET a == CHOOSE x \in acts : \A y \in acts : x <= y
         IN (IF Abs(a) < 10
             THEN << <<"garmin.login", f>>, <<"set_activity_name", f, a>> >>
             ELSE <<>>) \o RenameCalls(acts \ {a}, f)

find_and_set_garmin_activity_name(acts, f) ==
    << <<"garmin.login", f>>, <<"get_activities_by_date", f>> >>
        \o RenameCalls(acts, f)

(***************************************************************************)
(* One pass of the for loop of upload_all over files[idx]:                 *)
(* get_date_from_fit, get_name_from_intervals, edit_fit into the temporary *)
(* file, upload, and the append to uploaded_files.                         *)
(*   listed  the activities the naming service lists                       *)
(*   auth    garth.resume works ("resume"), or garth.login is needed and   *)
(*           works ("login") or raises ("login_fail")                      *)
(*   answer  of garth.client.upload: "ok", "conflict" (HTTP 409), "error"  *)
(*   acts    the remote activities find_and_set_garmin_activity_name sees  *)
(***************************************************************************)
\* a different design: the ledger written on the way out of a failing batch
Raise_flushing ==
    /\ pc' = "idle"
    /\ status' = "raised"
    /\ ledgerFile' = IF dryrun THEN ledgerFile ELSE uploaded_files
    /\ ledgerOps' = IF dryrun THEN ledgerOps
                  ELSE Append(ledgerOps, <<"write", Len(outcomes)>>)
    /\ UNCHANGED <<uploaded_files, idx, lastScan>>

\* an exception leaves the for loop and upload_all
Raise ==
    /\ pc' = "idle"
    /\ status' = "raised"
    /\ UNCHANGED <<ledgerFile, ledgerOps, uploaded_files, idx, lastScan>>

\* a slip of indentation: the append inside the block that a
\* pre-initialising pass skips, so that such a pass records nothing
Mark_notWhenSkipped(f, how) ==
    /\ uploaded_files' = IF how = "preinitialise" THEN uploaded_files
                         ELSE Append(uploaded_files, f)
    /\ outcomes' = Append(outcomes, how)
    /\ idx' = idx + 1
    /\ UNCHANGED <<ledgerFile, ledgerOps, pc, status, lastScan>>

\* a different design: the ledger saved after every candidate
Mark_saving(f, how) ==
    /\ uploaded_files' = Append(uploaded_files, f)
    /\ outcomes' = Append(outcomes, how)
    /\ idx' = idx + 1
    /\ ledgerFile' = IF dryrun THEN ledgerFile ELSE Append(uploaded_files, f)
    /\ ledgerOps' = IF dryrun THEN ledgerOps
                  ELSE Append(ledgerOps, <<"write", Len(outcomes) + 1>>)
    /\ UNCHANGED <<pc, status, lastScan>>

\* uploaded_files.append(f), and on to the next candidate
Mark(f, how) ==
    /\ uploaded_files' = Append(uploaded_files, f)
    /\ outcomes' = Append(outcomes, how)
    /\ idx' = idx + 1
    /\ UNCHANGED <<ledgerFile, ledgerOps, pc, status, lastScan>>

\* a different order: the candidate marked before its upload is submitted
Pipeline_markFirst == <<"extract", "lookup", "edit", "mark", "submit", "rename">>

\* the steps of one pass in the order of the code: get_date_from_fit,
\* get_name_from_intervals, edit_fit, garth.client.upload,
\* find_and_set_garmin_activity_name, uploaded_files.append
Pipeline == <<"extract", "lookup", "edit", "submit", "rename", "mark">>

\* the steps pass i enters when it gets as far as step last and leaves
\* out the steps of skipped
PassSteps(i, last, skipped) ==
    LET n == CHOOSE k \in 1..Len(Pipeline) : Pipeline[k] = last
        entered == SelectSeq(SubSeq(Pipeline, 1, n), LAMBDA s : s \notin skipped)
    IN [k \in 1..Len(entered) |-> <<entered[k], i>>]

\* a slip in the except clause of upload: the conflict re-raised as well
UploadRaises_conflictToo(answer) == answer \in {"error", "conflict"}

\* the except clause of upload re-raises every GarthHTTPError but 409
UploadRaises(answer) == answer = "error"

upload_all_file(listed, auth, answer, acts) ==
    /\ pc = "loop"
    /\ idx <= Len(files)
    /\ LET f == files[idx]
           records == Records(f)
           dt == get_date_from_fit(records)
           name == get_name_from_intervals(listed)
           lookup == IF creds THEN << <<"intervals.activities_list", f>> >> ELSE <<>>
           login == IF auth = "resume" THEN <<>> ELSE << <<"garth.login", f>> >>
           output == [path |-> TmpPath, records |-> BuilderMessages(records, name)]
           written == IF dryrun THEN writes ELSE Append(writes, output)
       IN IF preinitialise
          THEN /\ Mark(f, "preinitialise")
               /\ names' = Append(names, "")
               /\ steps' = steps \o << <<"mark", idx>> >>
               /\ UNCHANGED <<calls, writes>>
          ELSE IF ~Decodable(f)
          THEN \* FitFile.from_file raises in get_date_from_fit
               /\ Raise
               /\ outcomes' = Append(outcomes, IF f \in fs THEN "decode_error"
                                                         ELSE "not_found")
               /\ names' = Append(names, "")
               /\ steps' = steps \o PassSteps(idx, "extract", {})
               /\ UNCHANGED <<calls, writes>>
          ELSE IF creds /\ dt = NoVal
          THEN \* dt.strftime on None raises in get_name_from_intervals
               /\ Raise
               /\ outcomes' = Append(outcomes, "lookup_error")
               /\ names' = Append(names, "")
               /\ steps' = steps \o PassSteps(idx, "lookup", {})
               /\ UNCHANGED <<calls, writes>>
          ELSE IF auth = "login_fail"
          THEN /\ Raise
               /\ outcomes' = Append(outcomes, "login_error")
               /\ names' = Append(names, name)
               /\ steps' = steps \o PassSteps(idx, "edit", {})
               /\ calls' = calls \o lookup \o login
               /\ writes' = written
          ELSE IF dryrun
          THEN /\ Mark(f, "dryrun")
               /\ names' = Append(names, name)
               /\ steps' = steps \o PassSteps(idx, "mark", {"submit", "rename"})
               /\ calls' = calls \o lookup \o login
               /\ writes' = written
          ELSE IF answer = "ok"
          THEN /\ Mark(f, "ok")
               /\ names' = Append(names, name)
               /\ steps' = steps \o PassSteps(idx, "mark",
                                IF dt # NoVal /\ name # "" THEN {} ELSE {"rename"})
               /\ calls' = calls \o lookup \o login \o << <<"garth.upload", f>> >>
                    \o (IF dt # NoVal /\ name # ""
                        THEN find_and_set_garmin_activity_name(acts, f)
                        ELSE <<>>)
               /\ writes' = written
          ELSE IF ~UploadRaises(answer)
          THEN /\ Mark(f, answer)
               /\ names' = Append(names, name)
               /\ steps' = steps \o PassSteps(idx, "mark", {"rename"})
               /\ calls' = calls \o lookup \o login \o << <<"garth.upload", f>> >>
               /\ writes' = written
          ELSE /\ Raise
               /\ outcomes' = Append(outcomes, answer)
               /\ names' = Append(names, name)
               /\ steps' = steps \o PassSteps(idx, "submit", {})
               /\ calls' = calls \o lookup \o login \o << <<"garth.upload", f>> >>
               /\ writes' = written
    /\ UNCHANGED <<dir, fs, bad, creds, preinitialise, dryrun,
                   files, ledgerBefore, basis, okBefore, editVars>>

(***************************************************************************)
(* upload_all after the for loop: write the ledger unless dry-run.         *)
(***************************************************************************)
upload_all_flush ==
    /\ pc = "loop"
    /\ idx > Len(files)
    /\ ledgerFile' = IF dryrun THEN ledgerFile ELSE uploaded_files
    /\ ledgerOps' = IF dryrun THEN ledgerOps
                  ELSE Append(ledgerOps, <<"write", Len(outcomes)>>)
    /\ pc' = "idle"
    /\ status' = "returned"
    /\ lastScan' = IF dryrun THEN lastScan ELSE "complete"
    /\ UNCHANGED <<dir, fs, bad, creds, preinitialise, dryrun, uploaded_files,
                   files, idx, calls, writes, outcomes, ledgerBefore, basis,
                   names, steps, okBefore, editVars>>

(***************************************************************************)
(* daemonise and NewFileEventHandler.  The Observer is one thread that     *)
(* takes the creation events from its queue one at a time and calls        *)
(* on_created for each; daemonise sleeps in the main thread until a        *)
(* KeyboardInterrupt.                                                      *)
(***************************************************************************)
\* a file appears in the watched directory; the emitter of a started
\* observer queues an event when the name matches the pattern '*.fit'
file_created(name) ==
    /\ name \notin fs
    /\ fs' = fs \cup {name}
    /\ queue' = IF GlobMatch(name) /\ observer \in {"running", "dead"}
                THEN Append(queue, name) ELSE queue
    /\ lastScan' = "none"
    /\ UNCHANGED <<dir, bad, creds, ledgerFile, pc, preinitialise, dryrun,
                   uploaded_files, files, idx, status, calls, writes, outcomes,
                   ledgerBefore, basis, names, steps, ledgerOps, okBefore,
                   editVars, dpc, observer, hpc, handled, finished, recorded,
                   submitted>>

\* a different design: a thread started for every event
ObserverFree_always == TRUE

\* the observer thread is not inside a handler
ObserverFree == hpc = "none"

\* the observer thread takes the next event and calls on_created, which
\* begins with time.sleep(5)
on_created ==
    /\ observer = "running"
    /\ ObserverFree
    /\ queue # <<>>
    /\ queue' = Tail(queue)
    /\ hpc' = "sleep"
    /\ handled' = handled + 1
    /\ UNCHANGED <<scanVars, editVars, dpc, observer, finished, recorded, submitted>>

NamesOf(ledger) == IF ledger = NoFile THEN {} ELSE {ledger[i] : i \in 1..Len(ledger)}

Submissions(log) == {log[k][2] : k \in {j \in 1..Len(log) : log[j][1] = "garth.upload"}}

\* the end of a call of on_created: by return, or by an exception, which
\* ends the observer thread
HandlerEnds ==
    /\ hpc' = "none"
    /\ finished' = finished + 1
    /\ observer' = IF status' = "raised" /\ observer = "running"
                   THEN "dead" ELSE observer
    /\ submitted' = submitted \cup {<<handled, n>> : n \in Submissions(calls')}

\* on_created after its sleep: upload_all(Path(event.src_path).parent.absolute())
on_created_upload_all ==
    /\ hpc = "sleep"
    /\ \E listing \in Listings(fs \cap GlobNames) :
          upload_all_start(FALSE, FALSE, listing)
    /\ recorded' = recorded \cup NamesOf(ledgerFile')
    /\ IF pc' = "loop"
       THEN /\ hpc' = "batch"
            /\ UNCHANGED <<finished, observer, submitted>>
       ELSE HandlerEnds
    /\ UNCHANGED <<dpc, queue, handled>>

\* one pass of the loop of the batch on_created runs
on_created_file(listed, auth, answer, acts) ==
    /\ hpc = "batch"
    /\ upload_all_file(listed, auth, answer, acts)
    /\ IF status' = "raised"
       THEN HandlerEnds
       ELSE UNCHANGED <<hpc, finished, observer, submitted>>
    /\ UNCHANGED <<dpc, queue, handled, recorded>>

\* the batch writes the ledger and on_created returns
on_created_flush ==
    /\ hpc = "batch"
    /\ upload_all_flush
    /\ recorded' = recorded \cup NamesOf(ledgerFile')
    /\ HandlerEnds
    /\ UNCHANGED <<dpc, queue, handled>>

\* KeyboardInterrupt in the main thread, inside time.sleep(300): the except
\* clause logs, the finally clause calls observer.stop(), which also stops
\* the emitter
interrupt ==
    /\ dpc = "waiting"
    /\ dpc' = "stopping"
    /\ observer' = "stopped"
    /\ UNCHANGED <<scanVars, editVars, queue, hpc, handled, finished, recorded,
                   submitted>>

\* a slip: daemonise returning without observer.join()
Joined_noWait == TRUE

\* observer.join() returns: the observer thread has ended
Joined == hpc = "none"

\* daemonise returns from its finally clause
daemonise_return ==
    /\ dpc = "stopping"
    /\ Joined
    /\ dpc' = "returned"
    /\ UNCHANGED <<scanVars, editVars, observer, queue, hpc, handled, finished,
                   recorded, submitted>>

(***************************************************************************)
(* edit_fit as a whole, on records and a name drawn from bounded sets.     *)
(***************************************************************************)
\* Path.stem: the name up to its last dot (a leading dot is no suffix)
RECURSIVE Stem(_)
Stem(name) ==
    IF \A i \in 2..Len(name) : name[i] # "."
    THEN name
    ELSE IF name[Len(name)] = "." /\ Len(name) > 1
    THEN SubSeq(name, 1, Len(name) - 1)
    ELSE Stem(SubSeq(name, 1, Len(name) - 1))

\* a different design: the file rewritten in place
DefaultOutput_inPlace(name) == name

\* fit_path.parent / f"{fit_path.stem}_modified.fit", as a name inside dir
DefaultOutput(name) == Stem(name) \o MODIFIED_FIT

\* the value of eOut while edit_fit has written no file
NotWritten == << >>

\* modified_file.to_file(str(path)): the file at path created or replaced
ToFile(disk, path, records) ==
    [q \in DOMAIN disk \cup {path} |-> IF q = path THEN records ELSE disk[q]]

edit_fit(output, dry) ==
    /\ eRet = NoName
    /\ eRet' = IF output = NoName THEN DefaultOutput(ePath) ELSE output
    /\ eOut' = IF dry THEN NotWritten
               ELSE <<[path |-> eRet', records |-> BuilderMessages(eIn, eName)]>>
    /\ eFiles' = IF dry THEN eFiles
                 ELSE ToFile(eFiles, eRet', BuilderMessages(eIn, eName))
    /\ eDry' = dry
    /\ UNCHANGED <<eIn, eName, ePath, eDate, scanVars>>

\* a call of get_date_from_fit(fit_path): the file is decoded and read
get_date_from_fit_call ==
    /\ eDate = <<>>
    /\ eRet = NoName
    /\ eDate' = <<get_date_from_fit(eFiles[ePath])>>
    /\ UNCHANGED <<eIn, eName, eDry, eOut, eRet, ePath, eFiles, scanVars>>

\* the files edit_fit is given: main passes any path, upload_all a candidate
EditPaths == {ride1_fit, ride1_modified_fit}

MessageUniverse ==
    { Message(g, t, man, 7, gp, 1000) :
        g \in {FILE_ID, DEVICE_INFO, RECORD}, t \in BOOLEAN,
        man \in Manufacturers, gp \in {NoVal, 7} }

RecordSeqs ==
    UNION { [1..n -> MessageUniverse] : n \in 0..MaxRecords }

(***************************************************************************)
(* Specifications.                                                         *)
(***************************************************************************)
LedgerNames == {ride1_fit, RIDE2_FIT}

InitLedgers ==
    {NoFile} \cup UNION { [1..n -> LedgerNames] : n \in 0..MaxInitLedger }

ScanIdle ==
    /\ pc = "idle"
    /\ preinitialise = FALSE
    /\ dryrun = FALSE
    /\ uploaded_files = <<>>
    /\ files = <<>>
    /\ idx = 1
    /\ status = "none"
    /\ calls = <<>>
    /\ writes = <<>>
    /\ outcomes = <<>>
    /\ lastScan = "none"
    /\ basis = "none"
    /\ names = <<>>
    /\ steps = <<>>
    /\ okBefore = {}
    /\ ledgerOps = <<>>

EditIdle ==
    /\ eDry = FALSE
    /\ eOut = NotWritten
    /\ eRet = NoName
    /\ eDate = <<>>

\* daemonise has not been called
DaemonOff ==
    /\ dpc = "off"
    /\ observer = "none"
    /\ queue = <<>>
    /\ hpc = "none"
    /\ handled = 0
    /\ finished = 0
    /\ recorded = {}
    /\ submitted = {}

\* what the collaborators may answer in the pass over files[idx]; a
\* collaborator the pass does not reach has one (unused) answer
Reached == pc = "loop" /\ idx <= Len(files) /\ ~preinitialise /\ Decodable(files[idx])

NameChoices == IF Reached /\ creds THEN IntervalsAnswers ELSE {<<>>}

AuthChoices == IF Reached THEN {"resume", "login", "login_fail"} ELSE {"resume"}

AnswerChoices == IF Reached /\ ~dryrun THEN {"ok", "conflict", "error"} ELSE {"ok"}

ActivityChoices(listed, answer) ==
    IF Reached /\ ~dryrun /\ answer = "ok" /\ get_name_from_intervals(listed) # ""
    THEN SUBSET Deltas ELSE {{}}

Init ==
    /\ dir \in DirPaths
    /\ fs \in SUBSET FileNames
    /\ bad \in {NoName} \cup (fs \cap GlobNames)
    /\ creds \in BOOLEAN
    /\ ledgerFile \in InitLedgers
    /\ ledgerBefore = ledgerFile
    /\ ScanIdle
    /\ eIn = <<>>
    /\ eName = ""
    /\ ePath = ride1_fit
    /\ eFiles = [q \in {ePath} |-> eIn]
    /\ EditIdle
    /\ DaemonOff

Next ==
    \/ /\ \E pre, dry \in BOOLEAN :
            \E listing \in Listings(fs \cap GlobNames) :
               upload_all_start(pre, dry, listing)
       /\ UNCHANGED daemonVars
    \/ /\ \E listed \in NameChoices, auth \in AuthChoices :
            \E answer \in AnswerChoices :
               \E acts \in ActivityChoices(listed, answer) :
                  upload_all_file(listed, auth, answer, acts)
       /\ UNCHANGED daemonVars
    \/ /\ upload_all_flush
       /\ UNCHANGED daemonVars

Spec == Init /\ [][Next]_vars

EditInit ==
    /\ dir = tpv_dir
    /\ fs = {ride1_fit}
    /\ bad = NoName
    /\ creds = FALSE
    /\ ledgerFile = NoFile
    /\ ledgerBefore = NoFile
    /\ ScanIdle
    /\ eIn \in RecordSeqs
    /\ eName \in WorkoutNames
    /\ ePath \in EditPaths
    /\ eFiles = [q \in {ePath} |-> eIn]
    /\ EditIdle
    /\ DaemonOff

\* main and upload_all both call get_date_from_fit and then edit_fit, main
\* with the default output and upload_all with its temporary file
EditNext ==
    \/ /\ get_date_from_fit_call
       /\ UNCHANGED daemonVars
    \/ /\ eDate # <<>>
       /\ \E output \in {NoName, TmpPath}, dry \in BOOLEAN : edit_fit(output, dry)
       /\ UNCHANGED daemonVars

EditSpec == EditInit /\ [][EditNext]_vars

\* daemonise has started its observer on watch_dir and sleeps
DaemonInit ==
    /\ dir = watch_dir
    /\ fs \in SUBSET FileNames
    /\ bad \in {NoName} \cup GlobNames
    /\ creds \in BOOLEAN
    /\ ledgerFile \in InitLedgers
    /\ ledgerBefore = ledgerFile
    /\ ScanIdle
    /\ eIn = <<>>
    /\ eName = ""
    /\ ePath = ride1_fit
    /\ eFiles = [q \in {ePath} |-> eIn]
    /\ EditIdle
    /\ dpc = "waiting"
    /\ observer = "running"
    /\ queue = <<>>
    /\ hpc = "none"
    /\ handled = 0
    /\ finished = 0
    /\ recorded = NamesOf(ledgerFile)
    /\ submitted = {}

DaemonNext ==
    \/ \E name \in FileNames : file_created(name)
    \/ on_created
    \/ on_created_upload_all
    \/ \E listed \in NameChoices, auth \in AuthChoices :
         \E answer \in AnswerChoices :
            \E acts \in ActivityChoices(listed, answer) :
               on_created_file(listed, auth, answer, acts)
    \/ on_created_flush
    \/ interrupt
    \/ daemonise_return

DaemonSpec == DaemonInit /\ [][DaemonNext]_vars

(***************************************************************************)
(* Properties of edit_fit (EditSpec).                                      *)
(***************************************************************************)
EditWritten == eRet # NoName /\ ~eDry

EditOutput == eOut[1].records

IsFileId(m) == m.global_id = FILE_ID /\ m.typed
IsDeviceInfo(m) == m.global_id = DEVICE_INFO /\ m.typed

SameIdentityFields(a, b) ==
    /\ a.manufacturer = b.manufacturer
    /\ a.product = b.product
    /\ a.garmin_product = b.garmin_product

\* apart from the three identity fields, b is a
SameButIdentityFields(a, b) ==
    b = [a EXCEPT !.manufacturer = b.manufacturer, !.product = b.product,
                  !.garmin_product = b.garmin_product]

\* C8: in the file edit_fit writes, every file-id record whose manufacturer
\* was DEVELOPMENT has manufacturer GARMIN and product EDGE_830, and every
\* other file-id record has the manufacturer, product and garmin product it
\* had in the input.
C8_FileIdRewritten ==
    EditWritten =>
        \A i \in 1..Len(eIn) :
            IsFileId(eIn[i]) =>
                IF eIn[i].manufacturer = DEVELOPMENT
                THEN /\ EditOutput[i].manufacturer = GARMIN
                     /\ EditOutput[i].product = EDGE830
                ELSE SameIdentityFields(eIn[i], EditOutput[i])

C8_Witness ==
    /\ EditWritten
    /\ \E i, j \in 1..Len(eIn) :
          /\ IsFileId(eIn[i]) /\ eIn[i].manufacturer = DEVELOPMENT
          /\ EditOutput[i].manufacturer = GARMIN
          /\ IsFileId(eIn[j]) /\ eIn[j].manufacturer = 0
          /\ EditOutput[j].manufacturer = 0

\* C9: in the file edit_fit writes, every device-info record whose
\* manufacturer was DEVELOPMENT, 0 or WAHOO_FITNESS has manufacturer GARMIN and
\* product and garmin product EDGE_830, and every other device-info record has
\* its three fields unchanged, whatever the other records of the file are.
C9_DeviceInfoRewritten ==
    EditWritten =>
        \A i \in 1..Len(eIn) :
            IsDeviceInfo(eIn[i]) =>
                IF eIn[i].manufacturer \in {DEVELOPMENT, 0, WAHOO_FITNESS}
                THEN /\ EditOutput[i].manufacturer = GARMIN
                     /\ EditOutput[i].product = EDGE830
                     /\ EditOutput[i].garmin_product = EDGE830
                ELSE SameIdentityFields(eIn[i], EditOutput[i])

C9_Witness ==
    /\ EditWritten
    /\ \E i, j \in 1..Len(eIn) :
          /\ IsDeviceInfo(eIn[i]) /\ eIn[i].manufacturer = WAHOO_FITNESS
          /\ EditOutput[i].garmin_product = EDGE830
          /\ IsDeviceInfo(eIn[j]) /\ eIn[j].manufacturer = 89
          /\ EditOutput[j].manufacturer = 89

\* C10: the file edit_fit writes holds the input records one for one in the
\* input order (a record that is neither file-id nor device-info unchanged,
\* the others changed in their three identity fields at most), followed by
\* one workout message with the name and sport cycling exactly when the name
\* is not empty.
C10_SequencePreserved ==
    EditWritten =>
        /\ Len(EditOutput) = Len(eIn) + (IF eName # "" THEN 1 ELSE 0)
        /\ \A i \in 1..Len(eIn) :
              /\ SameButIdentityFields(eIn[i], EditOutput[i])
              /\ ~IsFileId(eIn[i]) /\ ~IsDeviceInfo(eIn[i])
                    => EditOutput[i] = eIn[i]
        /\ eName # "" =>
              /\ EditOutput[Len(eIn) + 1].global_id = WORKOUT
              /\ EditOutput[Len(eIn) + 1].workout_name = eName
              /\ EditOutput[Len(eIn) + 1].sport = "CYCLING"

C10_Witness ==
    /\ EditWritten
    /\ Len(eIn) = 2
    /\ eName = ""
    /\ Len(EditOutput) = 2
    /\ IsFileId(eIn[1]) /\ eIn[1].manufacturer = DEVELOPMENT
    /\ ~eIn[2].typed
    /\ EditOutput[2] = eIn[2]

(***************************************************************************)
(* Properties of upload_all (Spec).                                        *)
(***************************************************************************)
Loaded == LoadLedger(ledgerBefore)

Started == status # "none"
Returned == status = "returned"
Raised == status = "raised"

\* the outcome of the pass in which the batch raised
LastOutcome == outcomes[Len(outcomes)]

\* C1: a scan that begins after a non-dry-run scan ran to its end finds no
\* candidate: it makes no remote call, writes no activity file and leaves the
\* ledger file as it found it.
C1_SecondScanEmpty ==
    basis = "complete" =>
        /\ files = <<>>
        /\ calls = <<>>
        /\ writes = <<>>
        /\ ledgerFile = ledgerBefore

\* the second scan returned with nothing to do, after a scan that recorded names
C1_Witness ==
    /\ basis = "complete"
    /\ Returned
    /\ files = <<>>
    /\ {ride1_fit, RIDE2_FIT} \subseteq fs
    /\ Len(ledgerFile) > MaxInitLedger

\* C2: no candidate of a scan is in the loaded ledger or ends in
\* _modified.fit, and every other file of the directory that the glob matches
\* is a candidate.
C2_CandidateSelection ==
    Started =>
        /\ \A i \in 1..Len(files) :
              ~InSeq(files[i], Loaded) /\ ~EndsWith(files[i], MODIFIED_FIT)
        /\ \A f \in fs :
              GlobMatch(f) /\ ~EndsWith(f, MODIFIED_FIT) /\ ~InSeq(f, Loaded)
                  => InSeq(f, files)

\* C3: a dry run leaves the ledger file as it was (not created, not
\* modified), writes no activity file and makes no remote call.
C3_DryRunTouchesNothing ==
    Started /\ dryrun =>
        /\ ledgerFile = ledgerBefore
        /\ writes = <<>>
        /\ calls = <<>>

\* C4: a file that cannot be decoded is skipped and not added to the ledger:
\* the batch does not raise on it, and goes on to the remaining candidates
\* and to the ledger write.
C4_DecodeFailureSkipped ==
    \A i \in 1..Len(outcomes) :
        outcomes[i] = "decode_error" =>
            /\ ~Raised
            /\ ~InSeq(files[i], uploaded_files)

\* C5 as claimed: when the upload of a candidate raises, the candidates the
\* batch processed before it are in the ledger file.
C5_ProcessedRemainRecorded ==
    Raised /\ LastOutcome = "error" =>
        \A i \in 1..(idx - 1) : InSeq(files[i], ledgerFile)

\* C5 as amended: when the upload of a candidate raises, the batch ends
\* there, the ledger file holds what was loaded at batch start, and no
\* candidate of the batch is in it, so the next scan takes them all again.
C5_AbortKeepsLoadedLedger ==
    Raised /\ LastOutcome = "error" =>
        /\ pc = "idle"
        /\ Len(outcomes) = idx
        /\ ledgerFile = Loaded
        /\ \A i \in 1..Len(files) : ~InSeq(files[i], ledgerFile)

C5_Witness ==
    /\ Raised
    /\ LastOutcome = "error"
    /\ idx = 2
    /\ outcomes[1] = "ok"
    /\ Len(files) = 2
    /\ ~InSeq(files[1], ledgerFile)

UploadCalls == Cardinality({i \in 1..Len(calls) : calls[i][1] = "garth.upload"})
UploadAnswers ==
    Cardinality({i \in 1..Len(outcomes) : outcomes[i] \in {"ok", "conflict", "error"}})

\* C6: a conflict answer raises nothing and the batch goes on to the next
\* candidate; each pass submits at most one upload; and the candidate is in
\* the ledger file once the batch has returned.
C6_ConflictIsSuccess ==
    /\ UploadCalls = UploadAnswers
    /\ \A i \in 1..Len(outcomes) :
          outcomes[i] = "conflict" =>
              /\ ~(Raised /\ i = Len(outcomes))
              /\ idx > i
              /\ status = "running" => pc = "loop"
              /\ Returned => InSeq(files[i], ledgerFile)

C6_Witness ==
    /\ Returned
    /\ Len(files) = 2
    /\ outcomes = <<"conflict", "ok">>
    /\ files[1] = RIDE2_FIT
    /\ InSeq(RIDE2_FIT, ledgerFile)
    /\ ~InSeq(RIDE2_FIT, Loaded)

\* the scenario of C7: the first scan (no ledger file yet) of a directory
\* holding ride1.fit and ride1_modified.fit, not dry-run, not pre-initialise,
\* returned
C7_Scenario ==
    /\ Returned
    /\ ledgerBefore = NoFile
    /\ ~dryrun
    /\ ~preinitialise
    /\ fs = {ride1_fit, ride1_modified_fit}
    /\ bad = NoName

Rewritten(records) ==
    \A i \in 1..Len(records) :
        IsFileId(records[i]) \/ IsDeviceInfo(records[i]) =>
            records[i].manufacturer = GARMIN /\ records[i].product = EDGE830

\* C7 as claimed: after the scenario the ledger file is [ride1.fit],
\* ride1_modified.fit was no candidate, and this run has written
\* ride1_modified.fit with the manufacturer fields rewritten.
C7_ScenarioWritesModified ==
    C7_Scenario =>
        /\ ledgerFile = <<ride1_fit>>
        /\ ~InSeq(ride1_modified_fit, files)
        /\ \E i \in 1..Len(writes) :
              /\ writes[i].path = ride1_modified_fit
              /\ Rewritten(writes[i].records)

\* C7 as amended: after the scenario the ledger file holds ride1.fit and no
\* other name, ride1_modified.fit was no candidate and is not written, and
\* every candidate was rewritten into the temporary file, with the
\* manufacturer fields set to the target brand and device.
C7_ScenarioWritesTemporary ==
    C7_Scenario =>
        /\ ledgerFile = files
        /\ files # <<>>
        /\ \A i \in 1..Len(files) : files[i] = ride1_fit
        /\ ~InSeq(ride1_modified_fit, files)
        /\ Len(writes) = Len(files)
        /\ \A i \in 1..Len(writes) :
              /\ writes[i].path = TmpPath
              /\ writes[i].path # ride1_modified_fit
              /\ Rewritten(writes[i].records)
              /\ Len(writes[i].records) >= Len(ride1_records)

C7_Witness ==
    /\ C7_Scenario
    /\ dir = tpv_dir
    /\ ledgerFile = <<ride1_fit>>
    /\ Len(writes) = 1
    /\ writes[1].records[2].manufacturer = GARMIN

(***************************************************************************)
(* Further properties of upload_all (Spec).                                *)
(***************************************************************************)
\* C11: get_name_from_intervals never raises, whatever get_date_from_fit
\* returned (a timestamp or None): no pass of the batch ends in the lookup,
\* and the file goes on to edit and upload.
C11_LookupNeverRaises ==
    \A i \in 1..Len(outcomes) : outcomes[i] # "lookup_error"

\* C12: a pre-initialising batch decodes, edits and uploads no candidate and
\* makes no remote call: each pass only marks its candidate.  Once it has
\* returned (not a dry run) the ledger file holds what it held before
\* followed by every candidate, and a scan of the same directory finds no
\* candidate, whatever the order of the listing.
C12_PreinitialiseOnlyRecords ==
    (Started /\ preinitialise) =>
        /\ calls = <<>>
        /\ writes = <<>>
        /\ ~Raised
        /\ \A i \in 1..Len(steps) : steps[i][1] = "mark"
        /\ \A i \in 1..Len(outcomes) : outcomes[i] = "preinitialise"
        /\ (Returned /\ ~dryrun) =>
              /\ ledgerFile = Loaded \o files
              /\ \A listing \in Listings(fs \cap GlobNames) :
                    Candidates(dir, listing, ledgerFile) = <<>>

\* a pre-initialising batch over two activity files has returned, the ledger
\* file holding a name before it
C12_Witness ==
    /\ preinitialise /\ ~dryrun /\ Returned
    /\ Len(Loaded) = 1
    /\ Len(files) = 2
    /\ ledgerFile = Loaded \o files
    /\ steps = << <<"mark", 1>>, <<"mark", 2>> >>

StepsOf(i, step) == {k \in 1..Len(steps) : steps[k] = <<step, i>>}
CallsOf(op) == {k \in 1..Len(calls) : calls[k][1] = op}

\* C13: the rename of a candidate is entered only after the upload of that
\* candidate was submitted in this run and answered ok, and only with a name
\* that is not empty; a pass whose upload answered conflict, whose name is
\* empty or that runs dry searches and renames no remote activity, goes on
\* to mark its candidate and is not the pass that raises; and every activity
\* renamed starts less than 10 seconds from the timestamp of the file.
C13_RenameOnlyAfterSuccess ==
    /\ \A k \in 1..Len(steps) :
          steps[k][1] = "rename" =>
             LET i == steps[k][2]
             IN /\ \E j \in 1..(k - 1) : steps[j] = <<"submit", i>>
                /\ i <= Len(outcomes) => (outcomes[i] = "ok" /\ names[i] # "")
                /\ ~dryrun
    /\ \A i \in 1..Len(outcomes) :
          (outcomes[i] \in {"conflict", "dryrun"}
              \/ (outcomes[i] = "ok" /\ names[i] = "")) =>
             /\ StepsOf(i, "rename") = {}
             /\ StepsOf(i, "mark") # {}
             /\ Raised => i < Len(outcomes)
    /\ Cardinality(CallsOf("get_activities_by_date"))
          = Cardinality({k \in 1..Len(steps) : steps[k][1] = "rename"})
    /\ \A k \in CallsOf("set_activity_name") :
          /\ Abs(calls[k][3]) < 10
          /\ \E j \in 1..(k - 1) : calls[j] = <<"garth.upload", calls[k][2]>>

\* an upload answered ok, the name Tempo was found, and the remote activity
\* 9 seconds away was renamed while the one 10 seconds away was not
C13_Witness ==
    /\ Returned
    /\ outcomes = <<"ok">>
    /\ names = <<"Tempo">>
    /\ steps[Len(steps) - 1] = <<"rename", 1>>
    /\ Cardinality(CallsOf("set_activity_name")) = 1
    /\ \E k \in CallsOf("set_activity_name") : calls[k][3] = 9

\* C15 as stated: a batch that is not a dry run and has returned read the
\* ledger file once, at its start, and wrote it once, after its last
\* candidate, whether or not the file existed and whether or not there was
\* a candidate.
C15_ReadOnceWrittenOnce ==
    (Returned /\ ~dryrun) =>
        ledgerOps = << <<"read", 0>>, <<"write", Len(files)>> >>

\* the first access of a batch: the ledger file is read when it exists and
\* written with the empty list when it does not
FirstLedgerOp == IF ledgerBefore = NoFile THEN <<"write", 0>> ELSE <<"read", 0>>

\* C15: a batch that is not a dry run reads the ledger file once at its
\* start when the file exists, and writes the empty list to it instead when
\* it does not; the batch writes it once more, after the last candidate,
\* when it returns from a candidate list that is not empty, and does not
\* touch it again otherwise; it never writes it between two candidates.
C15_LedgerAccesses ==
    (Started /\ ~dryrun) =>
        /\ (Returned /\ files # <<>>) =>
              ledgerOps = <<FirstLedgerOp, <<"write", Len(files)>> >>
        /\ (Returned /\ files = <<>>) => ledgerOps = <<FirstLedgerOp>>
        /\ ~Returned => ledgerOps = <<FirstLedgerOp>>

\* a batch over two candidates returned in a directory that had no ledger
\* file: the file was written at the start and after the second candidate
C15_Witness ==
    /\ Returned /\ ~dryrun
    /\ ledgerBefore = NoFile
    /\ Len(files) = 2
    /\ ledgerOps = << <<"write", 0>>, <<"write", 2>> >>

\* the place of a step in the order extract, name lookup, mutate, upload,
\* rename, mark
Rank(step) ==
    CASE step = "extract" -> 1
      [] step = "lookup"  -> 2
      [] step = "edit"    -> 3
      [] step = "submit"  -> 4
      [] step = "rename"  -> 5
      [] step = "mark"    -> 6

\* C16: the steps of a batch are taken candidate by candidate in the order
\* of the candidate list, and for one candidate in the order extract, name
\* lookup, mutate, upload, rename, mark, none of them twice: every step of a
\* candidate comes before every step of the next, and a candidate is
\* submitted to the upload at most once.  A pass that is not
\* pre-initialising and marks its candidate has extracted, looked up and
\* edited it, and has submitted it unless the run is dry.
C16_SequentialPipeline ==
    /\ \A j, k \in 1..Len(steps) :
          j < k =>
             \/ steps[j][2] < steps[k][2]
             \/ /\ steps[j][2] = steps[k][2]
                /\ Rank(steps[j][1]) < Rank(steps[k][1])
    /\ \A i \in 1..Len(files) : Cardinality(StepsOf(i, "submit")) <= 1
    /\ Cardinality(CallsOf("garth.upload"))
          = Cardinality({k \in 1..Len(steps) : steps[k][1] = "submit"})
    /\ \A k \in 1..Len(steps) : steps[k][2] \in 1..Len(files)
    /\ \A i \in 1..Len(files) :
          (StepsOf(i, "mark") # {} /\ ~preinitialise) =>
             /\ \A st \in {"extract", "lookup", "edit"} : StepsOf(i, st) # {}
             /\ ~dryrun => StepsOf(i, "submit") # {}

\* the first of two candidates went through all six steps, and each of them
\* came before the second candidate was extracted
C16_Witness ==
    /\ dir = tpv_dir
    /\ Len(files) = 2
    /\ Len(steps) >= 7
    /\ SubSeq(steps, 1, 7) =
          << <<"extract", 1>>, <<"lookup", 1>>, <<"edit", 1>>, <<"submit", 1>>,
             <<"rename", 1>>, <<"mark", 1>>, <<"extract", 2>> >>

\* the characters of the names, in the order of their code points
CodePoints ==
    << ".", "/", "0", "1", "2", "3", "4", "5", "6", "7", "8", "9" >>
        \o UpperCase \o << "\\", "_" >> \o LowerCase

Ord(ch) == CHOOSE k \in 1..Len(CodePoints) : CodePoints[k] = ch

\* a comes before b, or is b, in lexicographic order
LexLeq(a, b) ==
    LET m == IF Len(a) < Len(b) THEN Len(a) ELSE Len(b)
        diff == {k \in 1..m : a[k] # b[k]}
    IN IF diff = {} THEN Len(a) <= Len(b)
       ELSE LET k == CHOOSE x \in diff : \A y \in diff : x <= y
            IN Ord(a[k]) < Ord(b[k])

\* C19: the candidates of a batch are processed, and so appended to the
\* ledger, in lexicographic order of their names, whatever the order in
\* which the file system lists the directory.
C19_LexicographicOrder ==
    Started => \A i \in 1..(Len(files) - 1) : LexLeq(files[i], files[i + 1])

\* C20: when a batch has raised, whatever raised (the decoding, the name
\* lookup, the login or the upload), the ledger file holds the names it held
\* when the batch began, or the empty list if it did not exist, and was not
\* written after the start of the batch; the candidates uploaded before the
\* exception are not in it, so the next scan has them as candidates again.
C20_AbortLeavesLedger ==
    /\ Raised =>
          /\ ledgerFile = Loaded
          /\ \A k \in 2..Len(ledgerOps) : ledgerOps[k][1] # "write"
          /\ \A i \in 1..Len(outcomes) :
                \A listing \in Listings(fs \cap GlobNames) :
                   InSeq(files[i], Candidates(dir, listing, ledgerFile))
    /\ Started => \A f \in okBefore : InSeq(f, files)

\* ride1.fit was uploaded in a batch that raised afterwards, and the next
\* batch has submitted it again
C20_Witness ==
    /\ okBefore = {ride1_fit}
    /\ ~InSeq(ride1_fit, ledgerFile)
    /\ \E k \in CallsOf("garth.upload") : calls[k] = <<"garth.upload", ride1_fit>>

(***************************************************************************)
(* Further properties of edit_fit and get_date_from_fit (EditSpec).        *)
(***************************************************************************)
\* C18: after calls of get_date_from_fit and edit_fit, with the default
\* output or with the temporary file upload_all passes, dry or not, the file
\* at the input path holds the records it held before, and the path edit_fit
\* returns and writes is not the input path.
C18_OriginalNeverModified ==
    /\ ePath \in DOMAIN eFiles
    /\ eFiles[ePath] = eIn
    /\ eRet # NoName => eRet # ePath
    /\ \A k \in 1..Len(eOut) : eOut[k].path # ePath
    /\ DOMAIN eFiles \subseteq {ePath, DefaultOutput(ePath), TmpPath}

\* edit_fit has written its default output for a file whose own name ends
\* in _modified.fit, after get_date_from_fit read the file
C18_Witness ==
    /\ ePath = ride1_modified_fit
    /\ eDate # <<>>
    /\ EditWritten
    /\ eRet = Stem(ride1_fit) \o <<"_","m","o","d","i","f","i","e","d">> \o MODIFIED_FIT
    /\ eFiles[eRet] = BuilderMessages(eIn, eName)
    /\ eFiles[eRet] # eIn
    /\ eFiles[ePath] = eIn

(***************************************************************************)
(* Properties of daemonise and on_created (DaemonSpec).                    *)
(***************************************************************************)
InFlight == handled - finished

\* C14: at most one call of on_created, and so at most one upload_all, is
\* under way at any time: an event that arrives meanwhile waits in the queue
\* of the observer.  So a running batch holds in its list every name the
\* ledger file has held, no name once in the ledger file leaves it, and no
\* name is submitted to the upload by two batches.
C14_SingleFlight ==
    /\ InFlight \in {0, 1}
    /\ hpc # "none" <=> InFlight = 1
    /\ pc = "loop" => hpc = "batch"
    /\ recorded \subseteq NamesOf(ledgerFile)
    /\ pc = "loop" => \A n \in recorded : InSeq(n, uploaded_files)
    /\ \A x, y \in submitted : x[2] = y[2] => x[1] = y[1]
    /\ pc = "loop" =>
          \A n \in Submissions(calls) : \A x \in submitted : x[2] = n => x[1] = handled

\* the second batch is running, after a first one that submitted an upload,
\* while a further creation event waits in the queue
C14_Witness ==
    /\ handled = 2
    /\ pc = "loop"
    /\ submitted # {}
    /\ Submissions(calls) # {}
    /\ queue # <<>>

C17_State ==
    /\ dpc = "waiting" => observer \in {"running", "dead"}
    /\ dpc \in {"stopping", "returned"} => observer = "stopped"
    /\ dpc = "returned" => (hpc = "none" /\ pc = "idle" /\ InFlight = 0)

C17_Step ==
    /\ dpc' # dpc =>
          \/ dpc = "waiting" /\ dpc' = "stopping" /\ observer' = "stopped"
          \/ dpc = "stopping" /\ dpc' = "returned"
    /\ dpc = "returned" =>
          /\ dpc' = "returned"
          /\ UNCHANGED <<handled, pc, hpc, ledgerFile, calls, queue>>

\* C17: daemonise leaves its wait only by an interrupt, which stops the
\* observer; it returns only when the observer thread has ended, inside no
\* handler and no batch; and once it has returned no creation event is
\* queued or handled, no batch starts and the ledger file stays as it is.
C17_InterruptStopsObserver == [](C17_State) /\ [][C17_Step]_vars

\* daemonise has returned after an interrupt that came while a batch was
\* running: the batch was finished, the event behind it was never handled
C17_Witness ==
    /\ dpc = "returned"
    /\ observer = "stopped"
    /\ finished = 1
    /\ status = "returned"
    /\ queue # <<>>

(***************************************************************************)
(* The ledger file across runs of upload_all (Spec).                       *)
(***************************************************************************)
IsPrefix(a, b) == Len(a) <= Len(b) /\ SubSeq(b, 1, Len(a)) = a

NoDuplicate(ledger) ==
    \A i, j \in 1..Len(ledger) : ledger[i] = ledger[j] => i = j

\* the ledger file of a run that has begun exists and extends what the run
\* loaded: no name is lost
LedgerGrows == Started => (ledgerFile # NoFile /\ IsPrefix(Loaded, ledgerFile))

\* the names a run has added to the ledger file are those of its candidates,
\* in a run that returned and was not dry, each of them skipped by
\* pre-initialise or uploaded with the answer ok or conflict
LedgerAddsOnlyProcessed ==
    (Started /\ ledgerFile # Loaded) =>
        /\ Returned /\ ~dryrun
        /\ ledgerFile = Loaded \o files
        /\ \A i \in 1..Len(files) :
              outcomes[i] \in (IF preinitialise THEN {"preinitialise"}
                               ELSE {"ok", "conflict"})

\* C21: over any runs of upload_all the ledger file only grows and loses no
\* name; it holds no name twice (if it held none twice when the run
\* began); and a name is added to it only by a pre-initialising run or
\* after the upload of that file was answered ok or conflict in a run that
\* was not dry and ran to its end.
C21_LedgerGrowth ==
    /\ LedgerGrows
    /\ LedgerAddsOnlyProcessed
    /\ (Started /\ NoDuplicate(Loaded)) => NoDuplicate(ledgerFile)

====
